---- MODULE Spec2Model ----
(***************************************************************************)
(* Model of src/src/ict/metadata/objects.py: the value objects Author and  *)
(* DOI (a pydantic RootModel around one str, a field validator, and a      *)
(* singledispatchmethod __eq__) and the Metadata record (field validators  *)
(* check_name / check_container and the after-validator default_title).    *)
(*                                                                         *)
(* A Python str is a sequence of one-character strings. A Python value is  *)
(* a record [type, root]; a call's outcome is a record [status, value,     *)
(* exc, errs]. Every behaviour is one call on one input, followed (when    *)
(* the call returned a value) by one comparison or one second validation.  *)
(***************************************************************************)
EXTENDS Integers, Sequences, FiniteSets, TLC

VARIABLES op, arg, pc, out, other, out2, ran

vars == <<op, arg, pc, out, other, out2, ran>>

---------------------------------------------------------------------------
(* Bounds of the input space                                               *)

MaxAuthorLen == 4
MaxDoiLen == 5
MaxNameLen == 7
MaxContainerLen == 5
MaxAuthors == 2

---------------------------------------------------------------------------
(* Python values                                                           *)

Str(s) == [type |-> "str", root |-> s]
None == [type |-> "NoneType", root |-> <<>>]
Missing == [type |-> "missing", root |-> <<>>]
Int42 == [type |-> "int", root |-> <<"4", "2">>]

StrUpTo(alphabet, n) == UNION {[1..k -> alphabet] : k \in 0..n}

Return(v) == [status |-> "ok", value |-> v, exc |-> "", errs |-> {}]
Raise(e, msg) == [status |-> "raise", value |-> None, exc |-> e, errs |-> {msg}]
NoOutcome == [status |-> "none", value |-> None, exc |-> "", errs |-> {}]

(* str.split(sep) for a one-character separator: always at least one piece *)
Split(s, sep) ==
  LET F[i \in 0..Len(s)] ==
        IF i = 0 THEN << <<>> >>
        ELSE IF s[i] = sep THEN Append(F[i - 1], <<>>)
        ELSE [F[i - 1] EXCEPT ![Len(F[i - 1])] = Append(@, s[i])]
  IN F[Len(s)]

(* str.startswith(prefix) *)
startswith(s, prefix) ==
  /\ Len(s) >= Len(prefix)
  /\ SubSeq(s, 1, Len(prefix)) = prefix

---------------------------------------------------------------------------
(* functools.singledispatchmethod: the implementation is chosen by the     *)
(* class of the argument, the first class of its MRO that is registered;   *)
(* the decorated function itself is registered for object.                 *)

MRO(type) ==
  CASE type = "str" -> <<"str", "object">>
    [] type = "int" -> <<"int", "object">>
    [] type = "NoneType" -> <<"NoneType", "object">>
    [] type = "Author" -> <<"Author", "RootModel", "BaseModel", "object">>
    [] type = "DOI" -> <<"DOI", "RootModel", "BaseModel", "object">>

Dispatch(registry, type) ==
  LET mro == MRO(type)
      hits == {i \in DOMAIN mro : mro[i] \in registry}
  IN mro[CHOOSE i \in hits : \A j \in hits : i <= j]

InvalidTypeMsg == "invalid type for comparison."

---------------------------------------------------------------------------
(* Author                                                                  *)

AuthorFormatMsg == "The author must be in the format <first name> <last name>"

check_author(value) ==
  IF ~(Len(Split(value, " ")) = 2)
  THEN Raise("ValueError", AuthorFormatMsg)
  ELSE Return(value)

(* Author(raw) / Author.model_validate(raw): root: str, then check_author *)
AuthorConstruct(raw) ==
  IF raw.type # "str" THEN Raise("TypeError", "Input should be a valid string")
  ELSE LET r == check_author(raw.root) IN
       IF r.status = "ok" THEN Return([type |-> "Author", root |-> r.value]) ELSE r

Author__str__(self) == self.root

AuthorEqRegistry == {"object", "str", "Author"}

(* variant: the fallback answers False instead of raising *)
Author__eq__fallback_false(self, o) ==
  LET impl == Dispatch(AuthorEqRegistry, o.type) IN
  IF impl \in {"str", "Author"} THEN Return(self.root = o.root)
  ELSE Return(FALSE)

Author__eq__(self, o) ==
  LET impl == Dispatch(AuthorEqRegistry, o.type) IN
  IF impl = "str" THEN Return(self.root = o.root)
  ELSE IF impl = "Author" THEN Return(self.root = o.root)
  ELSE Raise("TypeError", InvalidTypeMsg)

---------------------------------------------------------------------------
(* DOI                                                                     *)

DoiPrefixMsg == "The DOI must start with 10."
DoiFormatMsg == "The DOI must be in the format <prefix>/<suffix>"

(* variant: the two checks in the other order *)
check_doi_format_first(value) ==
  IF ~(Len(Split(value, "/")) = 2)
  THEN Raise("ValueError", DoiFormatMsg)
  ELSE IF ~startswith(value, <<"1", "0", ".">>)
  THEN Raise("ValueError", DoiPrefixMsg)
  ELSE Return(value)

check_doi(value) ==
  IF ~startswith(value, <<"1", "0", ".">>)
  THEN Raise("ValueError", DoiPrefixMsg)
  ELSE IF ~(Len(Split(value, "/")) = 2)
  THEN Raise("ValueError", DoiFormatMsg)
  ELSE Return(value)

DOIConstruct(raw) ==
  IF raw.type # "str" THEN Raise("TypeError", "Input should be a valid string")
  ELSE LET r == check_doi(raw.root) IN
       IF r.status = "ok" THEN Return([type |-> "DOI", root |-> r.value]) ELSE r

DOIEqRegistry == {"object", "str", "DOI"}

DOI__eq__(self, o) ==
  LET impl == Dispatch(DOIEqRegistry, o.type) IN
  IF impl = "str" THEN Return(self.root = o.root)
  ELSE IF impl = "DOI" THEN Return(self.root = o.root)
  ELSE Raise("TypeError", InvalidTypeMsg)

DOI__str__(self) == self.root

---------------------------------------------------------------------------
(* Character classes of the container pattern                              *)

Letters ==
  {"a", "b", "c", "d", "e", "f", "g", "h", "i", "j", "k", "l", "m",
   "n", "o", "p", "q", "r", "s", "t", "u", "v", "w", "x", "y", "z",
   "A", "B", "C", "D", "E", "F", "G", "H", "I", "J", "K", "L", "M",
   "N", "O", "P", "Q", "R", "S", "T", "U", "V", "W", "X", "Y", "Z"}
Digits == {"0", "1", "2", "3", "4", "5", "6", "7", "8", "9"}
RegistryChars == Letters
RepoChars == Letters \cup {"_", "-"}
TagChars == Letters \cup Digits \cup {"_", "."}

AllIn(s, lo, hi, class) == \A i \in lo..hi : s[i] \in class

(* re.match(r"^[a-zA-Z]*\/{0,1}[a-zA-Z_\-]+:[a-zA-Z0-9_\.]+$", value):     *)
(* value[1..i] is the registry, value[i+1..j] the optional "/",            *)
(* value[j+1..k] the repository, value[k+1] the ":", value[k+2..e] the     *)
(* tag; "$" matches at the end of the string and also just before a        *)
(* newline that is the last character of the string.                       *)
ContainerPatternMatch(value) ==
  LET n == Len(value) IN
  \E i \in 0..n : \E j \in {i, i + 1} : \E k \in (j + 1)..n : \E e \in (k + 2)..n :
    /\ AllIn(value, 1, i, RegistryChars)
    /\ j = i + 1 => value[j] = "/"
    /\ AllIn(value, j + 1, k, RepoChars)
    /\ k + 1 <= n /\ value[k + 1] = ":"
    /\ AllIn(value, k + 2, e, TagChars)
    /\ \/ e = n
       \/ e = n - 1 /\ value[n] = "\n"

---------------------------------------------------------------------------
(* Metadata                                                                *)

NameFormatMsg == "The name must be in the format <organization/user>/<ICT name>"
ContainerFormatMsg == "The name must be in the format <registry path>/<image repository>:<tag>"

(* variant: returns the last segment instead of the value *)
check_name_last_segment(value) ==
  IF ~(Len(Split(value, "/")) \in {2, 3})
  THEN Raise("ValueError", NameFormatMsg)
  ELSE Return(Split(value, "/")[Len(Split(value, "/"))])

check_name(value) ==
  IF ~(Len(Split(value, "/")) \in {2, 3})
  THEN Raise("ValueError", NameFormatMsg)
  ELSE Return(value)

check_container(value) ==
  IF ~ContainerPatternMatch(value)
  THEN Raise("ValueError", ContainerFormatMsg)
  ELSE Return(value)

(* variant: "if not self.title", which also replaces an empty title *)
default_title_falsy(self) ==
  IF self.title = None \/ self.title = Str(<<>>)
  THEN [self EXCEPT !.title = self.name] ELSE self

default_title(self) ==
  IF self.title = None THEN [self EXCEPT !.title = self.name] ELSE self

(* The outcome of one field of the record: its value, its errors and the   *)
(* validators of this file that were run on it.                            *)
FieldOk(v, r) == [value |-> v, errs |-> {}, ran |-> r]
FieldErr(loc, msg, r) == [value |-> None, errs |-> {[loc |-> loc, msg |-> msg]}, ran |-> r]

(* name: str = Field(...), required, then check_name *)
NameField(v) ==
  IF v.type = "missing" THEN FieldErr("name", "Field required", {})
  ELSE IF v.type # "str" THEN FieldErr("name", "Input should be a valid string", {})
  ELSE LET r == check_name(v.root) IN
       IF r.status = "ok" THEN FieldOk(Str(r.value), {"check_name"})
       ELSE FieldErr("name", CHOOSE m \in r.errs : TRUE, {"check_name"})

(* container: str = Field(...), required, then check_container *)
ContainerField(v) ==
  IF v.type = "missing" THEN FieldErr("container", "Field required", {})
  ELSE IF v.type # "str" THEN FieldErr("container", "Input should be a valid string", {})
  ELSE LET r == check_container(v.root) IN
       IF r.status = "ok" THEN FieldOk(Str(r.value), {"check_container"})
       ELSE FieldErr("container", CHOOSE m \in r.errs : TRUE, {"check_container"})

(* title: Optional[str] = Field(None, ...) *)
TitleField(v) ==
  IF v.type = "missing" THEN FieldOk(None, {})
  ELSE IF v.type \in {"NoneType", "str"} THEN FieldOk(v, {})
  ELSE FieldErr("title", "Input should be a valid string", {})

(* one element of author: an Author instance is kept, a str is validated *)
AuthorItem(v) ==
  IF v.type = "Author" THEN Return(v) ELSE AuthorConstruct(v)

(* variant: only the first element is validated *)
AuthorField_first_only(v) ==
  IF v.type = "missing" THEN FieldErr("author", "Field required", {})
  ELSE LET res == [i \in DOMAIN v.items |-> AuthorItem(v.items[i])]
           bad == {i \in DOMAIN res : i = 1 /\ res[i].status # "ok"}
       IN IF bad = {}
          THEN FieldOk([type |-> "list", items |-> [i \in DOMAIN res |-> res[i].value]],
                       IF DOMAIN res = {} THEN {} ELSE {"check_author"})
          ELSE [value |-> None,
                errs |-> {[loc |-> "author", msg |-> m] : m \in UNION {res[i].errs : i \in bad}},
                ran |-> {"check_author"}]

(* author: list[Author] = Field(...), required; every element is validated *)
AuthorField(v) ==
  IF v.type = "missing" THEN FieldErr("author", "Field required", {})
  ELSE LET res == [i \in DOMAIN v.items |-> AuthorItem(v.items[i])]
           bad == {i \in DOMAIN res : res[i].status # "ok"}
       IN IF bad = {}
          THEN FieldOk([type |-> "list", items |-> [i \in DOMAIN res |-> res[i].value]],
                       IF DOMAIN res = {} THEN {} ELSE {"check_author"})
          ELSE [value |-> None,
                errs |-> {[loc |-> "author", msg |-> m] : m \in UNION {res[i].errs : i \in bad}},
                ran |-> {"check_author"}]

(* Samples of what the two library types of contact accept and reject      *)
EmailSample == <<"mohammed.ouladi@labshare.org">>
UrlSample == <<"https://github.com/polusai/polus-plugins">>
MalformedContact == <<"no contact">>

(* contact: Optional[Union[EmailStr, AnyHttpUrl]] = Field(...), required *)
ContactField(v) ==
  IF v.type = "missing" THEN FieldErr("contact", "Field required", {})
  ELSE IF v.type \in {"NoneType", "Url"} THEN FieldOk(v, {})
  ELSE IF v.type = "str" /\ v.root = EmailSample THEN FieldOk(v, {})
  ELSE IF v.type = "str" /\ v.root = UrlSample THEN FieldOk([type |-> "Url", root |-> v.root], {})
  ELSE FieldErr("contact", "value is not a valid email address or URL", {})

(* variant: citation declared with a default of None, like title *)
CitationField_defaulted(v) ==
  IF v.type \in {"missing", "NoneType", "DOI"}
  THEN FieldOk(IF v.type = "missing" THEN None ELSE v, {})
  ELSE LET r == DOIConstruct(v) IN
       IF r.status = "ok" THEN FieldOk(r.value, {"check_doi"})
       ELSE FieldErr("citation", CHOOSE m \in r.errs : TRUE, {"check_doi"})

(* citation: Optional[DOI] = Field(...), required *)
CitationField(v) ==
  IF v.type = "missing" THEN FieldErr("citation", "Field required", {})
  ELSE IF v.type \in {"NoneType", "DOI"} THEN FieldOk(v, {})
  ELSE LET r == DOIConstruct(v) IN
       IF r.status = "ok" THEN FieldOk(r.value, {"check_doi"})
       ELSE FieldErr("citation", CHOOSE m \in r.errs : TRUE, {"check_doi"})

(* Metadata.model_validate(fields): every field is validated and the       *)
(* errors collected; the after-validator runs only on a record whose       *)
(* fields all passed. The fields of the record that this file puts no      *)
(* validator on (specVersion, version, entrypoint, description,            *)
(* repository, documentation) are held at valid values.                    *)
ModelValidate(fields) ==
  LET n == NameField(fields.name)
      c == ContainerField(fields.container)
      t == TitleField(fields.title)
      a == AuthorField(fields.author)
      k == ContactField(fields.contact)
      d == CitationField(fields.citation)
      errs == n.errs \cup c.errs \cup t.errs \cup a.errs \cup k.errs \cup d.errs
      rans == n.ran \cup c.ran \cup t.ran \cup a.ran \cup k.ran \cup d.ran
      self == [name |-> n.value, container |-> c.value, title |-> t.value,
               author |-> a.value, contact |-> k.value, citation |-> d.value]
  IN IF errs = {}
     THEN [out |-> Return(default_title(self)), ran |-> rans \cup {"default_title"}]
     ELSE [out |-> [status |-> "raise", value |-> None, exc |-> "ValidationError", errs |-> errs],
           ran |-> rans]

---------------------------------------------------------------------------
(* Input spaces                                                            *)

AuthorAlphabet == {"a", "b", " ", "\t"}
DoiAlphabet == {"1", "0", ".", "/", "a"}

AuthorInputs == {Str(s) : s \in StrUpTo(AuthorAlphabet, MaxAuthorLen)}
DoiInputs == {Str(s) : s \in StrUpTo(DoiAlphabet, MaxDoiLen)}

NameAlphabet == {"a", "b", "/"}
ContainerAlphabet == {"a", "1", "_", "-", ".", "/", ":", "\n"}

NameInputs == StrUpTo(NameAlphabet, MaxNameLen)
ContainerInputs == StrUpTo(ContainerAlphabet, MaxContainerLen)

SeqUpTo(S, n) == UNION {[1..k -> S] : k \in 0..n}

MetaNames == {Missing, Str(<<"a", "/", "b">>), Str(<<"a", "/", "b", "/", "c">>),
              Str(<<"a">>), Str(<<"a", "/", "b", "/", "c", "/", "d">>)}
MetaContainers == {Missing, Str(<<"a", ":", "1">>), Str(<<"a", "/", "a", ":", "1">>),
                   Str(<<"a">>)}
MetaTitles == {Missing, None, Str(<<>>), Str(<<"t">>)}
MetaAuthorItems == {Str(<<"a", " ", "b">>), Str(<<"a">>)}
MetaAuthors == {Missing} \cup
               {[type |-> "list", items |-> l] : l \in SeqUpTo(MetaAuthorItems, MaxAuthors)}
MetaContacts == {Missing, None, Str(EmailSample), Str(UrlSample), Str(MalformedContact)}
MetaCitations == {Missing, None, Str(<<"1", "0", ".", "/", "a">>),
                  Str(<<"1", "1", ".", "/", "a">>), Str(<<"1", "0", ".", "a">>)}

MetaInputs == [name : MetaNames, container : MetaContainers, title : MetaTitles,
               author : MetaAuthors, contact : MetaContacts, citation : MetaCitations]

(* comparands of an equality test on the value v *)
Comparands(v) ==
  {Str(v.root), Str(<<"x">>), Str(<<>>), Int42, None,
   [type |-> "Author", root |-> v.root], [type |-> "DOI", root |-> v.root],
   [type |-> "Author", root |-> <<"a", " ", "b">>],
   [type |-> "DOI", root |-> <<"1", "0", ".", "/", "a">>]}

---------------------------------------------------------------------------
(* State machine                                                           *)

Init ==
  /\ pc = "call"
  /\ out = NoOutcome
  /\ out2 = NoOutcome
  /\ other = None
  /\ ran = {}
  /\ \/ op = "Author" /\ arg \in AuthorInputs
     \/ op = "DOI" /\ arg \in DoiInputs
     \/ op = "check_name" /\ arg \in NameInputs
     \/ op = "check_container" /\ arg \in ContainerInputs
     \/ op = "Metadata" /\ arg \in MetaInputs

(* Author(arg) *)
CallAuthor ==
  /\ pc = "call" /\ op = "Author"
  /\ out' = AuthorConstruct(arg)
  /\ pc' = "returned"
  /\ UNCHANGED <<op, arg, other, out2, ran>>

(* DOI(arg) *)
CallDOI ==
  /\ pc = "call" /\ op = "DOI"
  /\ out' = DOIConstruct(arg)
  /\ pc' = "returned"
  /\ UNCHANGED <<op, arg, other, out2, ran>>

(* author == o *)
CompareAuthor ==
  /\ pc = "returned" /\ op = "Author" /\ out.status = "ok"
  /\ \E o \in Comparands(out.value) :
       /\ other' = o
       /\ out2' = Author__eq__(out.value, o)
  /\ pc' = "compared"
  /\ UNCHANGED <<op, arg, out, ran>>

(* doi == o *)
CompareDOI ==
  /\ pc = "returned" /\ op = "DOI" /\ out.status = "ok"
  /\ \E o \in Comparands(out.value) :
       /\ other' = o
       /\ out2' = DOI__eq__(out.value, o)
  /\ pc' = "compared"
  /\ UNCHANGED <<op, arg, out, ran>>

(* Metadata.check_name(arg) *)
CallCheckName ==
  /\ pc = "call" /\ op = "check_name"
  /\ out' = check_name(arg)
  /\ pc' = "returned"
  /\ UNCHANGED <<op, arg, other, out2, ran>>

(* Metadata.check_container(arg) *)
CallCheckContainer ==
  /\ pc = "call" /\ op = "check_container"
  /\ out' = check_container(arg)
  /\ pc' = "returned"
  /\ UNCHANGED <<op, arg, other, out2, ran>>

(* Metadata.model_validate(arg) *)
CallMetadata ==
  /\ pc = "call" /\ op = "Metadata"
  /\ LET r == ModelValidate(arg) IN out' = r.out /\ ran' = r.ran
  /\ pc' = "returned"
  /\ UNCHANGED <<op, arg, other, out2>>

(* Metadata.model_validate on the fields of the record the first call returned *)
Revalidate ==
  /\ pc = "returned" /\ op = "Metadata" /\ out.status = "ok"
  /\ LET r == ModelValidate(out.value) IN out2' = r.out /\ ran' = r.ran
  /\ pc' = "revalidated"
  /\ UNCHANGED <<op, arg, other, out>>

Next ==
  \/ CallAuthor
  \/ CallDOI
  \/ CompareAuthor
  \/ CompareDOI
  \/ CallCheckName
  \/ CallCheckContainer
  \/ CallMetadata
  \/ Revalidate

Spec == Init /\ [][Next]_vars

---------------------------------------------------------------------------
(* Shapes the properties are stated with                                   *)

Count(s, ch) == Cardinality({i \in DOMAIN s : s[i] = ch})

Whitespace == {" ", "\t", "\n"}

(* number of maximal runs of non-whitespace characters *)
TokenCount(s) ==
  Cardinality({i \in DOMAIN s : s[i] \notin Whitespace /\ (i = 1 \/ s[i - 1] \in Whitespace)})

HasPrefix10(s) == Len(s) >= 3 /\ s[1] = "1" /\ s[2] = "0" /\ s[3] = "."

OneSlashDoi(s) == HasPrefix10(s) /\ Count(s, "/") = 1

NoEmptySegment(s) ==
  /\ Len(s) > 0 /\ s[1] # "/" /\ s[Len(s)] # "/"
  /\ \A i \in 1..(Len(s) - 1) : ~(s[i] = "/" /\ s[i + 1] = "/")

NameShape(s) == Count(s, "/") \in {1, 2} /\ NoEmptySegment(s)

(* letters, at most one "/", repository, ":", tag, and nothing else *)
ContainerShape(s) ==
  /\ Count(s, ":") = 1
  /\ LET c == CHOOSE i \in DOMAIN s : s[i] = ":"
         slashes == {i \in 1..(c - 1) : s[i] = "/"}
     IN /\ c < Len(s)
        /\ \A i \in (c + 1)..Len(s) : s[i] \in TagChars
        /\ \/ slashes = {} /\ c > 1 /\ \A i \in 1..(c - 1) : s[i] \in RepoChars
           \/ /\ Cardinality(slashes) = 1
              /\ LET p == CHOOSE i \in slashes : TRUE
                 IN /\ \A i \in 1..(p - 1) : s[i] \in Letters
                    /\ p + 1 < c
                    /\ \A i \in (p + 1)..(c - 1) : s[i] \in RepoChars

NameArgOk(f) == f.name.type = "str" /\ Count(f.name.root, "/") \in {1, 2}
ContainerArgOk(f) == f.container.type = "str" /\ ContainerPatternMatch(f.container.root)
AuthorArgOk(f) ==
  /\ f.author.type = "list"
  /\ \A i \in DOMAIN f.author.items : Count(f.author.items[i].root, " ") = 1
ContactArgOk(f) == f.contact \in {None, Str(EmailSample), Str(UrlSample)}
CitationArgOk(f) ==
  \/ f.citation = None
  \/ f.citation.type = "str" /\ OneSlashDoi(f.citation.root)

MetadataReturned == op = "Metadata" /\ pc = "returned"

---------------------------------------------------------------------------
(* Properties                                                              *)

(* C1: when validation succeeds the title of the result is a string, never *)
(* null; it equals the result's name if the input title was absent or      *)
(* null, and it is the input title unchanged if that was a string, the     *)
(* empty string included.                                                  *)
C1_TitleDefault ==
  (MetadataReturned /\ out.status = "ok") =>
    /\ out.value.title # None /\ out.value.title.type = "str"
    /\ arg.title \in {Missing, None} => out.value.title = out.value.name
    /\ arg.title.type = "str" => out.value.title = arg.title

C1_Witness ==
  /\ MetadataReturned /\ out.status = "ok"
  /\ arg.title = Missing
  /\ out.value.title = Str(<<"a", "/", "b">>)

(* C2: validation returns a record only if the checks of name, container,  *)
(* every author element, contact and a non-null citation all pass;         *)
(* otherwise it raises, returns no record, and default_title has not run.  *)
C2_AllOrNothing ==
  MetadataReturned =>
    /\ out.status \in {"ok", "raise"}
    /\ out.status = "ok" =>
         /\ NameArgOk(arg) /\ ContainerArgOk(arg) /\ AuthorArgOk(arg)
         /\ ContactArgOk(arg) /\ CitationArgOk(arg)
    /\ out.status = "raise" =>
         /\ out.value = None
         /\ out.exc = "ValidationError"
         /\ "default_title" \notin ran

C2_Witness ==
  /\ MetadataReturned /\ out.status = "raise"
  /\ NameArgOk(arg) /\ ContainerArgOk(arg) /\ ContactArgOk(arg) /\ CitationArgOk(arg)
  /\ arg.author.type = "list" /\ Len(arg.author.items) = 2
  /\ Count(arg.author.items[1].root, " ") = 1
  /\ Count(arg.author.items[2].root, " ") # 1
  /\ "default_title" \notin ran

(* C3: Author(raw) succeeds exactly when raw has two whitespace-separated  *)
(* tokens, fails with a format error otherwise, and on success str() gives *)
(* raw back unchanged.                                                     *)
C3_AuthorTwoTokens ==
  (op = "Author" /\ pc = "returned") =>
    /\ out.status = "ok" <=> TokenCount(arg.root) = 2
    /\ out.status = "ok" => Author__str__(out.value) = arg.root
    /\ out.status # "ok" => out.exc = "ValueError" /\ out.errs = {AuthorFormatMsg}

(* C4: DOI(s) succeeds exactly when s starts with "10." and holds exactly  *)
(* one "/"; a string without the prefix fails with the prefix error, also  *)
(* when its number of "/" is wrong too; a string with the prefix and a     *)
(* wrong number of "/" fails with the format error.                        *)
C4_DoiConstruct ==
  (op = "DOI" /\ pc = "returned") =>
    /\ out.status = "ok" <=> OneSlashDoi(arg.root)
    /\ out.status = "ok" => out.value = [type |-> "DOI", root |-> arg.root]
    /\ ~HasPrefix10(arg.root) =>
         out.status = "raise" /\ out.exc = "ValueError" /\ out.errs = {DoiPrefixMsg}
    /\ (HasPrefix10(arg.root) /\ Count(arg.root, "/") # 1) =>
         out.status = "raise" /\ out.exc = "ValueError" /\ out.errs = {DoiFormatMsg}

C4_Witness ==
  /\ op = "DOI" /\ pc = "returned"
  /\ ~HasPrefix10(arg.root) /\ Count(arg.root, "/") = 2
  /\ out.errs = {DoiPrefixMsg}

(* C5: every string DOI() accepts has exactly one "/", a non-empty part    *)
(* before it that begins with "10.", and a non-empty part after it.        *)
C5_DoiNonEmptySegments ==
  (op = "DOI" /\ pc = "returned" /\ out.status = "ok") =>
    /\ Count(arg.root, "/") = 1
    /\ HasPrefix10(arg.root)
    /\ NoEmptySegment(arg.root)

(* C6: check_name accepts a name exactly when splitting it on "/" gives 2  *)
(* or 3 segments and none of them is empty.                                *)
C6_NameShape ==
  (op = "check_name" /\ pc = "returned") =>
    (out.status = "ok" <=> NameShape(arg))

(* C7: check_container accepts a string exactly when it is: zero or more   *)
(* letters, at most one "/", one or more letters, "_" or "-", one ":",     *)
(* one or more letters, digits, "_" or ".", with nothing before or after.  *)
C7_ContainerShape ==
  (op = "check_container" /\ pc = "returned") =>
    (out.status = "ok" <=> ContainerShape(arg))

(* C8: an Author or DOI compared with a str or with a value of its own     *)
(* type answers whether the underlying strings are equal; compared with a  *)
(* value of any other type (a number, None, the other value type) it       *)
(* raises TypeError and never answers False.                               *)
C8_DualTypeEquality ==
  (pc = "compared") =>
    /\ other.type \in {"str", out.value.type} =>
         /\ out2.status = "ok"
         /\ out2.value = (other.root = arg.root)
    /\ other.type \notin {"str", out.value.type} =>
         out2.status = "raise" /\ out2.exc = "TypeError"

C8_Witness ==
  /\ pc = "compared" /\ op = "Author"
  /\ other.type = "DOI" /\ other.root = arg.root
  /\ out2.status = "raise" /\ out2.exc = "TypeError"

(* C9: validating the fields of a validated record again succeeds and      *)
(* gives a record equal to it, field by field.                             *)
C9_Idempotent ==
  (pc = "revalidated") =>
    /\ out2.status = "ok"
    /\ out2.value = out.value

C9_Witness ==
  /\ pc = "revalidated"
  /\ arg.title = Missing
  /\ arg.citation # None /\ arg.author.type = "list" /\ Len(arg.author.items) = 2
  /\ out2.status = "ok"
  /\ out2.value.title = out.value.name

(* C10: contact and citation are required and nullable: with every other   *)
(* field valid a null contact (citation) is accepted and stays null, a     *)
(* missing contact (citation) key is an error, and check_doi runs on       *)
(* citation exactly when it is not null.                                   *)
C10_RequiredNullable ==
  MetadataReturned =>
    /\ ( /\ NameArgOk(arg) /\ ContainerArgOk(arg) /\ AuthorArgOk(arg)
         /\ CitationArgOk(arg) /\ arg.contact = None ) =>
           out.status = "ok" /\ out.value.contact = None
    /\ ( /\ NameArgOk(arg) /\ ContainerArgOk(arg) /\ AuthorArgOk(arg)
         /\ ContactArgOk(arg) /\ arg.citation = None ) =>
           out.status = "ok" /\ out.value.citation = None
    /\ arg.contact = Missing =>
         /\ out.status = "raise"
         /\ [loc |-> "contact", msg |-> "Field required"] \in out.errs
    /\ arg.citation = Missing =>
         /\ out.status = "raise"
         /\ [loc |-> "citation", msg |-> "Field required"] \in out.errs
    /\ arg.citation \in {None, Missing} => "check_doi" \notin ran
    /\ arg.citation.type = "str" => "check_doi" \in ran

C10_Witness ==
  /\ MetadataReturned /\ out.status = "ok"
  /\ arg.contact = None /\ arg.citation = None
  /\ out.value.contact = None /\ out.value.citation = None
  /\ "check_doi" \notin ran

====
